---- MODULE Spec2Model ----
(***************************************************************************)
(* Model of src/src/gaussian-rng.ts: gaussianRandom (Box-Muller transform  *)
(* with the cubic skew adjustment), boundedGaussianRandom (rejection loop) *)
(* and generateGaussianRandom (dispatch on the supplied parameters).       *)
(*                                                                         *)
(* A JavaScript number is modelled as a record [k, v]: k = "fin" carries a *)
(* fixed-point value v / Unit, and k = "pinf", "ninf", "nan" are the IEEE  *)
(* special values Infinity, -Infinity and NaN.  k = "undef" is the value   *)
(* `undefined` of an omitted option.  Arithmetic rounds to the nearest     *)
(* representable value, so 1 / Unit plays the part of the smallest         *)
(* positive double.  The parameters stay far below the overflow threshold  *)
(* of a double, so finite operands never overflow to Infinity here.        *)
(***************************************************************************)
EXTENDS Integers, FiniteSets, Sequences, TLC

VARIABLES fn, args, pc, err, result, draws, calls, rmean, rstd, u1, z0, num

vars == <<fn, args, pc, err, result, draws, calls, rmean, rstd, u1, z0, num>>

(* ------------------------------ bounds --------------------------------- *)
\* the integer bounds min and max range over -MaxParam..MaxParam
MaxParam == 1
\* cap on the iterations of the rejection loop that the model follows
MaxIter == 3

(* ------------------------- the number type ----------------------------- *)
Unit == 1000

Fin(n) == [k |-> "fin", v |-> n]
NaN == [k |-> "nan", v |-> 0]
PInf == [k |-> "pinf", v |-> 0]
NInf == [k |-> "ninf", v |-> 0]
Undefined == [k |-> "undef", v |-> 0]
Zero == Fin(0)

IsFinite(x) == x.k = "fin"
\* NaN, or undefined, which a numeric operator converts to NaN
IsNaN(x) == x.k = "nan" \/ x.k = "undef"

Abs(n) == IF n < 0 THEN -n ELSE n
Sign(n) == IF n < 0 THEN -1 ELSE IF n > 0 THEN 1 ELSE 0

\* n / d rounded to the nearest integer (d > 0)
RoundDiv(n, d) == Sign(n) * ((2 * Abs(n) + d) \div (2 * d))

\* sign of a non-NaN number: -1, 0, 1
SignOf(x) == IF x.k = "pinf" THEN 1 ELSE IF x.k = "ninf" THEN -1 ELSE Sign(x.v)

Signed(s) == IF s > 0 THEN PInf ELSE NInf

Neg(x) ==
    IF x.k = "fin" THEN Fin(-x.v)
    ELSE IF x.k = "pinf" THEN NInf
    ELSE IF x.k = "ninf" THEN PInf
    ELSE NaN

\* a < b; every comparison with NaN is false
Lt(a, b) ==
    IF IsNaN(a) \/ IsNaN(b) THEN FALSE
    ELSE IF a.k = "fin" /\ b.k = "fin" THEN a.v < b.v
    ELSE IF a.k = "ninf" THEN b.k # "ninf"
    ELSE IF a.k = "pinf" THEN FALSE
    ELSE b.k = "pinf"

Gt(a, b) == Lt(b, a)
Le(a, b) == IF IsNaN(a) \/ IsNaN(b) THEN FALSE ELSE ~Lt(b, a)
Ge(a, b) == Le(b, a)

Add(a, b) ==
    IF IsNaN(a) \/ IsNaN(b) THEN NaN
    ELSE IF a.k = "fin" /\ b.k = "fin" THEN Fin(a.v + b.v)
    ELSE IF a.k = "fin" THEN b
    ELSE IF b.k = "fin" THEN a
    ELSE IF a.k = b.k THEN a
    ELSE NaN

Sub(a, b) == Add(a, Neg(b))

Mul(a, b) ==
    IF IsNaN(a) \/ IsNaN(b) THEN NaN
    ELSE IF a.k = "fin" /\ b.k = "fin" THEN Fin(RoundDiv(a.v * b.v, Unit))
    ELSE IF SignOf(a) * SignOf(b) = 0 THEN NaN
    ELSE Signed(SignOf(a) * SignOf(b))

\* a / b for a finite divisor b > 0
Div(a, b) ==
    IF IsNaN(a) THEN NaN
    ELSE IF a.k = "fin" THEN Fin(RoundDiv(a.v * Unit, b.v))
    ELSE a

\* z ** 3
Pow3(z) == Mul(Mul(z, z), z)

(* ---------------------- Math.random, log, sqrt, cos -------------------- *)
\* values Math.random() returns, in [0, 1): 0, 1/128, 3/8, 1/2
RandomValues == {Fin(0), Fin(8), Fin(375), Fin(500)}

\* Math.log on the values of RandomValues; Math.log(0) = -Infinity
Log(u) ==
    IF u.v = 0 THEN NInf
    ELSE IF u.v = 8 THEN Fin(-4852)
    ELSE IF u.v = 375 THEN Fin(-981)
    ELSE Fin(-693)

\* Math.sqrt of a number >= 0; Math.sqrt(Infinity) = Infinity
Sqrt(x) ==
    IF IsNaN(x) \/ x.k = "ninf" THEN NaN
    ELSE IF x.k = "pinf" THEN PInf
    ELSE IF x.v < 0 THEN NaN
    ELSE Fin(CHOOSE r \in 0..(x.v + Unit) :
                 r * r <= x.v * Unit /\ (r + 1) * (r + 1) > x.v * Unit)

\* Math.cos(2.0 * Math.PI * u) on the values of RandomValues; the cosine of
\* a double is never exactly 0
CosTwoPi(u) ==
    IF u.v = 0 THEN Fin(1000)
    ELSE IF u.v = 8 THEN Fin(999)
    ELSE IF u.v = 375 THEN Fin(-707)
    ELSE Fin(-1000)

\* Math.sqrt(-2.0 * Math.log(u)), tabulated once over RandomValues
Radius == [u \in RandomValues |-> Sqrt(Mul(Fin(-2 * Unit), Log(u)))]

(* ------------------------------ errors --------------------------------- *)
NoError == "none"
StdDevError == "Standard deviation must be greater than zero."
MinMaxError == "Minimum bound must be less than maximum bound."
MissingError == "Either min/max or mean/stdDev must be provided"

(* --------------------------- gaussianRandom ---------------------------- *)
\* a destructuring default: `name = d` replaces undefined by d
Default(x, d) == IF x = Undefined THEN d ELSE x

\* let z0 = Math.sqrt(-2.0 * Math.log(u1)) * Math.cos(2.0 * Math.PI * u2)
BoxMuller(a, b) == Mul(Radius[a], CosTwoPi(b))

\* SkewAdjusted with the square in place of the cube
SkewAdjusted_Square(z, skew) == Add(z, Mul(skew, Sub(Mul(z, z), z)))

\* let skewAdjusted = z0 + skew * (z0 ** 3 - z0)
SkewAdjusted(z, skew) == Add(z, Mul(skew, Sub(Pow3(z), z)))

\* gaussianRandom with the check written `stdDev < 0`
gaussianRandom_StrictCheck(mean, stdDev, skew, a, b) ==
    LET m == Default(mean, Zero)
        sd == Default(stdDev, Fin(Unit))
        sk == Default(skew, Zero)
    IN  IF Lt(sd, Zero)
        THEN [err |-> StdDevError, value |-> Undefined, consumed |-> 0,
              u1 |-> Undefined, z0 |-> Undefined]
        ELSE [err |-> NoError,
              value |-> Add(Mul(SkewAdjusted(BoxMuller(a, b), sk), sd), m),
              consumed |-> 2, u1 |-> a, z0 |-> BoxMuller(a, b)]

\* gaussianRandom with the check placed after the two draws
gaussianRandom_DrawFirst(mean, stdDev, skew, a, b) ==
    LET m == Default(mean, Zero)
        sd == Default(stdDev, Fin(Unit))
        sk == Default(skew, Zero)
    IN  IF Le(sd, Zero)
        THEN [err |-> StdDevError, value |-> Undefined, consumed |-> 2,
              u1 |-> a, z0 |-> Undefined]
        ELSE [err |-> NoError,
              value |-> Add(Mul(SkewAdjusted(BoxMuller(a, b), sk), sd), m),
              consumed |-> 2, u1 |-> a, z0 |-> BoxMuller(a, b)]

\* gaussianRandom with a third draw taken when skew is not 0
gaussianRandom_ExtraDraw(mean, stdDev, skew, a, b) ==
    LET m == Default(mean, Zero)
        sd == Default(stdDev, Fin(Unit))
        sk == Default(skew, Zero)
    IN  IF Le(sd, Zero)
        THEN [err |-> StdDevError, value |-> Undefined, consumed |-> 0,
              u1 |-> Undefined, z0 |-> Undefined]
        ELSE [err |-> NoError,
              value |-> Add(Mul(SkewAdjusted(BoxMuller(a, b), sk), sd), m),
              consumed |-> IF sk = Zero THEN 2 ELSE 3,
              u1 |-> a, z0 |-> BoxMuller(a, b)]

\* gaussianRandom with the omitted skew defaulting to 1
gaussianRandom_SkewDefault(mean, stdDev, skew, a, b) ==
    LET m == Default(mean, Zero)
        sd == Default(stdDev, Fin(Unit))
        sk == Default(skew, Fin(Unit))
    IN  IF Le(sd, Zero)
        THEN [err |-> StdDevError, value |-> Undefined, consumed |-> 0,
              u1 |-> Undefined, z0 |-> Undefined]
        ELSE [err |-> NoError,
              value |-> Add(Mul(SkewAdjusted(BoxMuller(a, b), sk), sd), m),
              consumed |-> 2, u1 |-> a, z0 |-> BoxMuller(a, b)]

\* the outcome of one invocation with the two draws a, b: the error thrown
\* (or NoError), the value returned, and the number of draws consumed
gaussianRandom(mean, stdDev, skew, a, b) ==
    LET m == Default(mean, Zero)
        sd == Default(stdDev, Fin(Unit))
        sk == Default(skew, Zero)
    IN  IF Le(sd, Zero)
        THEN [err |-> StdDevError, value |-> Undefined, consumed |-> 0,
              u1 |-> Undefined, z0 |-> Undefined]
        ELSE [err |-> NoError,
              value |-> Add(Mul(SkewAdjusted(BoxMuller(a, b), sk), sd), m),
              consumed |-> 2, u1 |-> a, z0 |-> BoxMuller(a, b)]

(* ----------------------- boundedGaussianRandom ------------------------- *)
\* ResolveMean with the default derived only when stdDev is omitted too
ResolveMean_Coupled(a) ==
    IF a.mean # Undefined THEN a.mean
    ELSE IF a.stdDev # Undefined THEN Zero
    ELSE Div(Add(a.min, a.max), Fin(2 * Unit))

\* mean = mean !== undefined ? mean : (min + max) / 2
ResolveMean(a) ==
    IF a.mean # Undefined THEN a.mean ELSE Div(Add(a.min, a.max), Fin(2 * Unit))

\* ResolveStdDev with a non-positive explicit value replaced by the default
ResolveStdDev_Clamped(a) ==
    IF a.stdDev # Undefined /\ Gt(a.stdDev, Zero) THEN a.stdDev
    ELSE Div(Sub(a.max, a.min), Fin(6 * Unit))

\* stdDev = stdDev !== undefined ? stdDev : (max - min) / 6
ResolveStdDev(a) ==
    IF a.stdDev # Undefined THEN a.stdDev ELSE Div(Sub(a.max, a.min), Fin(6 * Unit))

\* BoundedCheck with the first check written `min > max`
BoundedCheck_StrictMinMax(a) ==
    IF Gt(a.min, a.max) THEN MinMaxError
    ELSE IF Le(ResolveStdDev(a), Zero) THEN StdDevError
    ELSE NoError

\* the two precondition checks, in the order of the code
BoundedCheck(a) ==
    IF Ge(a.min, a.max) THEN MinMaxError
    ELSE IF Le(ResolveStdDev(a), Zero) THEN StdDevError
    ELSE NoError

\* while (num < min || num > max)
OutOfBounds(n, a) == Lt(n, a.min) \/ Gt(n, a.max)

(* ------------------------------- state --------------------------------- *)
\* min, max: the integers and the smallest positive number
BoundVals == {Fin(i * Unit) : i \in (0 - MaxParam)..MaxParam} \cup {Fin(1)}
OptBoundVals == BoundVals \cup {Undefined}
MeanVals == {Zero, Fin(Unit), Undefined}
StdDevVals == {Fin(0 - Unit), Zero, Fin(1), Fin(Unit), Undefined}
SkewVals == {Fin(0 - Unit), Zero, Fin(Unit \div 2), Undefined}

Functions == {"gaussianRandom", "boundedGaussianRandom", "generateGaussianRandom"}

\* the options object of the call
ArgsOf(f) ==
    IF f = "gaussianRandom"
    THEN [min : {Undefined}, max : {Undefined}, mean : MeanVals,
          stdDev : StdDevVals, skew : SkewVals]
    ELSE IF f = "boundedGaussianRandom"
    THEN [min : BoundVals, max : BoundVals, mean : MeanVals,
          stdDev : StdDevVals, skew : SkewVals]
    ELSE [min : OptBoundVals, max : OptBoundVals, mean : MeanVals,
          stdDev : StdDevVals, skew : SkewVals]

Init ==
    /\ fn \in Functions
    /\ args \in ArgsOf(fn)
    /\ pc = "call"
    /\ err = NoError
    /\ result = Undefined
    /\ draws = 0
    /\ calls = 0
    /\ rmean = Undefined
    /\ rstd = Undefined
    /\ u1 = Undefined
    /\ z0 = Undefined
    /\ num = Undefined

\* throw new Error(e)
Throw(e) ==
    /\ pc' = "error"
    /\ err' = e
    /\ result' = Undefined

\* one invocation of gaussianRandom whose value is returned to the caller
ReturnCore(r) ==
    /\ draws' = draws + r.consumed
    /\ calls' = calls + 1
    /\ u1' = r.u1
    /\ z0' = r.z0
    /\ num' = r.value
    /\ IF r.err # NoError
       THEN Throw(r.err)
       ELSE pc' = "done" /\ err' = NoError /\ result' = r.value

\* lines 55-62 of boundedGaussianRandom: the checks and the defaults
EnterBounded ==
    /\ IF BoundedCheck(args) = MinMaxError
       THEN Throw(MinMaxError) /\ UNCHANGED <<rmean, rstd>>
       ELSE /\ rmean' = ResolveMean(args)
            /\ rstd' = ResolveStdDev(args)
            /\ IF BoundedCheck(args) = StdDevError
               THEN Throw(StdDevError)
               ELSE pc' = "loop" /\ UNCHANGED <<err, result>>
    /\ UNCHANGED <<fn, args, draws, calls, u1, z0, num>>

(* ------------------------------ actions -------------------------------- *)
\* gaussianRandom({mean, stdDev, skew})
CallGaussianRandom ==
    /\ pc = "call"
    /\ fn = "gaussianRandom"
    /\ \E a, b \in RandomValues :
           ReturnCore(gaussianRandom(args.mean, args.stdDev, args.skew, a, b))
    /\ UNCHANGED <<fn, args, rmean, rstd>>

\* boundedGaussianRandom({min, max, mean, stdDev, skew}) up to the loop
CallBoundedGaussianRandom ==
    /\ pc = "call"
    /\ fn = "boundedGaussianRandom"
    /\ EnterBounded

\* one iteration of do { num = gaussianRandom(...) } while (...); return num
BoundedIterate ==
    /\ pc = "loop"
    /\ calls < MaxIter
    /\ \E a, b \in RandomValues :
           LET r == gaussianRandom(rmean, rstd, Default(args.skew, Zero), a, b)
           IN  /\ draws' = draws + r.consumed
               /\ calls' = calls + 1
               /\ u1' = r.u1
               /\ z0' = r.z0
               /\ num' = r.value
               /\ IF r.err # NoError
                  THEN Throw(r.err)
                  ELSE IF OutOfBounds(r.value, args)
                  THEN pc' = "loop" /\ UNCHANGED <<err, result>>
                  ELSE pc' = "done" /\ err' = NoError /\ result' = r.value
    /\ UNCHANGED <<fn, args, rmean, rstd>>

\* GenerateBranch with the min/max test first
GenerateBranch_BoundsFirst(a) ==
    IF a.min # Undefined /\ a.max # Undefined THEN "bounded"
    ELSE IF a.mean # Undefined /\ a.stdDev # Undefined THEN "core"
    ELSE "missing"

\* GenerateBranch with `||` in the mean/stdDev test
GenerateBranch_EitherOfPair(a) ==
    IF a.mean # Undefined \/ a.stdDev # Undefined THEN "core"
    ELSE IF a.min # Undefined /\ a.max # Undefined THEN "bounded"
    ELSE "missing"

\* GenerateBranch with the mean/stdDev branch taken only for a positive stdDev
GenerateBranch_PositiveStdDev(a) ==
    IF a.mean # Undefined /\ a.stdDev # Undefined /\ Gt(a.stdDev, Zero) THEN "core"
    ELSE IF a.min # Undefined /\ a.max # Undefined THEN "bounded"
    ELSE "missing"

\* the branch generateGaussianRandom takes: lines 95, 101 and 104
GenerateBranch(a) ==
    IF a.mean # Undefined /\ a.stdDev # Undefined THEN "core"
    ELSE IF a.min # Undefined /\ a.max # Undefined THEN "bounded"
    ELSE "missing"

\* generateGaussianRandom({min, max, mean, stdDev, skew})
CallGenerateGaussianRandom ==
    /\ pc = "call"
    /\ fn = "generateGaussianRandom"
    /\ IF GenerateBranch(args) = "core"
       THEN /\ IF Le(args.stdDev, Zero)
               THEN /\ Throw(StdDevError)
                    /\ UNCHANGED <<draws, calls, u1, z0, num>>
               ELSE \E a, b \in RandomValues :
                        ReturnCore(gaussianRandom(args.mean, args.stdDev,
                                                  Default(args.skew, Zero), a, b))
            /\ UNCHANGED <<fn, args, rmean, rstd>>
       ELSE IF GenerateBranch(args) = "bounded"
       THEN EnterBounded
       ELSE /\ Throw(MissingError)
            /\ UNCHANGED <<fn, args, draws, calls, rmean, rstd, u1, z0, num>>

Next ==
    \/ CallGaussianRandom
    \/ CallBoundedGaussianRandom
    \/ BoundedIterate
    \/ CallGenerateGaussianRandom

Spec == Init /\ [][Next]_vars

(* ------------------------- properties checked -------------------------- *)
Present(x) == x # Undefined
Skew == Default(args.skew, Zero)
\* the defaults of the bounded sampler, written out from the parameters
MidPoint == Div(Add(args.min, args.max), Fin(2 * Unit))
SixthOfRange == Div(Sub(args.max, args.min), Fin(6 * Unit))
ExpectedMean == IF Present(args.mean) THEN args.mean ELSE MidPoint
ExpectedStdDev == IF Present(args.stdDev) THEN args.stdDev ELSE SixthOfRange
InBounds(x) == IsFinite(x) /\ Ge(x, args.min) /\ Le(x, args.max)
Returned == pc = "done"
Failed == pc = "error"

\* C1: every value boundedGaussianRandom returns is a number with
\* min <= value <= max, for every sequence of draws, a draw of 0 included.
C1_ReturnedValueInBounds ==
    (fn = "boundedGaussianRandom" /\ Returned) => InBounds(result)

\* C2: gaussianRandom with stdDev <= 0 ends in the stdDev error and returns
\* no value; with stdDev > 0 it never raises an error.
C2_StdDevPrecondition ==
    (fn = "gaussianRandom" /\ pc # "call") =>
        LET sd == Default(args.stdDev, Fin(Unit))
        IN  /\ Le(sd, Zero) => (Failed /\ err = StdDevError /\ result = Undefined)
            /\ Gt(sd, Zero) => (Returned /\ err = NoError)

C2_Witness ==
    /\ fn = "gaussianRandom"
    /\ args.stdDev = Zero
    /\ Failed
    /\ err = StdDevError

\* C3: boundedGaussianRandom with min >= max (equal or inverted) ends in the
\* min/max error and returns no value, whatever mean, stdDev and skew are.
C3_MinMaxPrecondition ==
    (fn = "boundedGaussianRandom" /\ pc # "call" /\ Ge(args.min, args.max)) =>
        (Failed /\ err = MinMaxError /\ result = Undefined /\ calls = 0)

C3_Witness ==
    /\ fn = "boundedGaussianRandom"
    /\ args.min = args.max
    /\ Present(args.stdDev)
    /\ Failed
    /\ err = MinMaxError

\* C4 as stated: with min < max an explicit stdDev <= 0 ends in the stdDev
\* error; with stdDev omitted the default is > 0 and the stdDev error is
\* never raised.
C4_DefaultAlwaysPositive ==
    (fn = "boundedGaussianRandom" /\ pc # "call" /\ Lt(args.min, args.max)) =>
        /\ (Present(args.stdDev) /\ Le(args.stdDev, Zero)) =>
               (Failed /\ err = StdDevError /\ result = Undefined)
        /\ ~Present(args.stdDev) => (Gt(rstd, Zero) /\ err # StdDevError)

\* C4 amended: with min < max an explicit stdDev <= 0 ends in the stdDev
\* error and returns no value; with stdDev omitted the default (max - min) / 6
\* is never negative, and the stdDev error is raised exactly when that
\* quotient rounds to 0.
C4_StdDevAfterDefault ==
    (fn = "boundedGaussianRandom" /\ pc # "call" /\ Lt(args.min, args.max)) =>
        /\ (Present(args.stdDev) /\ Le(args.stdDev, Zero)) =>
               (Failed /\ err = StdDevError /\ result = Undefined)
        /\ ~Present(args.stdDev) =>
               /\ rstd = SixthOfRange
               /\ Ge(rstd, Zero)
               /\ (err = StdDevError) <=> (rstd = Zero)
               /\ err # MinMaxError

C4_Witness ==
    /\ fn = "boundedGaussianRandom"
    /\ Lt(args.min, args.max)
    /\ Present(args.stdDev)
    /\ Lt(args.stdDev, Zero)
    /\ Failed
    /\ err = StdDevError

\* C5: in boundedGaussianRandom every core invocation gets the caller's mean
\* if supplied, else (min + max) / 2, and the caller's stdDev if supplied,
\* else (max - min) / 6, each default independent of the other parameter and
\* the same in every iteration of the loop.
C5_ResolvedParameters ==
    (fn = "boundedGaussianRandom" /\ pc \in {"loop", "done"}) =>
        /\ rmean = ExpectedMean
        /\ rstd = ExpectedStdDev
        /\ calls >= 1 =>
               num = Add(Mul(SkewAdjusted(z0, Skew), ExpectedStdDev), ExpectedMean)

C5_Witness ==
    /\ fn = "boundedGaussianRandom"
    /\ Returned
    /\ calls >= 2
    /\ ~Present(args.mean)
    /\ Present(args.stdDev)
    /\ rmean # Zero
    /\ IsFinite(result)

\* C6: generateGaussianRandom with mean and stdDev both supplied calls the
\* core sampler exactly once and ignores min/max: the bounds are neither
\* validated nor enforced and no rejection loop runs.
C6_MeanStdDevPrecedence ==
    (fn = "generateGaussianRandom" /\ pc # "call"
        /\ Present(args.mean) /\ Present(args.stdDev)) =>
        /\ pc # "loop"
        /\ err # MinMaxError
        /\ rmean = Undefined /\ rstd = Undefined
        /\ Failed => (calls = 0 /\ Le(args.stdDev, Zero))
        /\ Returned =>
               /\ calls = 1
               /\ draws = 2
               /\ result = num
               /\ num = Add(Mul(SkewAdjusted(z0, Skew), args.stdDev), args.mean)

C6_Witness ==
    /\ fn = "generateGaussianRandom"
    /\ Present(args.mean) /\ Present(args.stdDev)
    /\ Present(args.min) /\ Present(args.max)
    /\ Lt(args.min, args.max)
    /\ Returned
    /\ IsFinite(result)
    /\ OutOfBounds(result, args)

\* C7: generateGaussianRandom with min and max supplied and at most one of
\* mean/stdDev behaves as boundedGaussianRandom with the same parameters: a
\* lone mean or stdDev overrides only that default and the returned value
\* lies in [min, max].
C7_GenerateAsBounded ==
    (fn = "generateGaussianRandom" /\ pc # "call"
        /\ Present(args.min) /\ Present(args.max)
        /\ ~(Present(args.mean) /\ Present(args.stdDev))) =>
        /\ Failed => (err = BoundedCheck(args) /\ calls = 0)
        /\ ~Failed =>
               /\ BoundedCheck(args) = NoError
               /\ rmean = ExpectedMean
               /\ rstd = ExpectedStdDev
        /\ Returned => InBounds(result)

\* C8: generateGaussianRandom ends in the missing-parameters error exactly
\* when neither pair is complete: (mean or stdDev missing) and (min or max
\* missing).
C8_MissingParameters ==
    (fn = "generateGaussianRandom" /\ pc # "call") =>
        /\ (err = MissingError) <=>
               /\ ~Present(args.mean) \/ ~Present(args.stdDev)
               /\ ~Present(args.min) \/ ~Present(args.max)
        /\ err = MissingError => (Failed /\ result = Undefined)

C8_Witness ==
    /\ fn = "generateGaussianRandom"
    /\ Present(args.mean) /\ Present(args.min)
    /\ ~Present(args.stdDev) /\ ~Present(args.max)
    /\ Failed
    /\ err = MissingError

\* C9: the first variate u1 that enters the logarithm is strictly positive
\* even when the source returns 0, so every value gaussianRandom returns for
\* finite mean, stdDev > 0 and skew is a finite number.
C9_FirstVariatePositive ==
    (fn = "gaussianRandom" /\ Returned) =>
        (Gt(u1, Zero) /\ IsFinite(result))

\* C10: every error is raised before any uniform draw is consumed, and a call
\* that has consumed a draw never ends in an error.
C10_ErrorBeforeDraw ==
    /\ Failed => (draws = 0 /\ result = Undefined /\ err # NoError)
    /\ draws > 0 => err = NoError

C10_Witness ==
    /\ fn = "generateGaussianRandom"
    /\ ~Present(args.stdDev)
    /\ Present(args.min) /\ Present(args.max)
    /\ Failed
    /\ err = StdDevError
    /\ draws = 0

\* the parameters of a core-sampler call after its destructuring defaults
CoreMean == Default(args.mean, Zero)
CoreStdDev == Default(args.stdDev, Fin(Unit))
\* v = z0 * stdDev + mean, the unskewed scaled variate
Scaled == Add(Mul(z0, CoreStdDev), CoreMean)

\* C11: for stdDev > 0 the value gaussianRandom returns is
\* (z0 + skew * (z0^3 - z0)) * stdDev + mean, and with skew = 0 this is
\* z0 * stdDev + mean.
C11_CubicSkewFormula ==
    (fn = "gaussianRandom" /\ Returned) =>
        /\ result = Add(Mul(Add(z0, Mul(Skew, Sub(Pow3(z0), z0))), CoreStdDev),
                        CoreMean)
        /\ Skew = Zero => result = Scaled

\* C12: gaussianRandom applies skew by reflection across the mean: the
\* result is v = z0 * stdDev + mean or 2 * mean - v, for skew > 0 only
\* values v < mean are reflected, for skew < 0 only values v > mean, and
\* |result - mean| = |v - mean| for every skew.  Stated for the finite
\* variates z0, so that a violation does not rest on a draw of 0.
C12_MeanFlipSkew ==
    (fn = "gaussianRandom" /\ Returned /\ IsFinite(z0)) =>
        LET reflected == Sub(Mul(Fin(2 * Unit), CoreMean), Scaled)
        IN  /\ result = Scaled \/ result = reflected
            /\ Gt(Skew, Zero) => Ge(result, Scaled)
            /\ Lt(Skew, Zero) => Le(result, Scaled)
            /\ Sub(result, CoreMean) = Sub(Scaled, CoreMean)
                   \/ Sub(result, CoreMean) = Neg(Sub(Scaled, CoreMean))

DefaultSkewCoreCall ==
    /\ ~Present(args.skew)
    /\ \/ fn = "gaussianRandom"
       \/ fn = "generateGaussianRandom" /\ Present(args.mean) /\ Present(args.stdDev)
ThreeSigma == Mul(Fin(3 * Unit), CoreStdDev)
WithinThreeSigma(x) ==
    /\ IsFinite(x)
    /\ Ge(x, Sub(CoreMean, ThreeSigma))
    /\ Le(x, Add(CoreMean, ThreeSigma))

MaxZ == 20
Z0Grid == {Fin(i * (Unit \div 10)) : i \in (0 - MaxZ)..MaxZ}
\* skews of the conventional range [-1, 1], the smallest ones included
SkewGrid == {Fin(0 - Unit), Fin(0 - (Unit \div 2)), Fin(-2), Fin(-1), Zero,
             Fin(1), Fin(2), Fin(Unit \div 2), Fin(Unit)}

InitSkew ==
    /\ fn = "skewAdjusted"
    /\ args \in [min : {Undefined}, max : {Undefined}, mean : {Undefined},
                 stdDev : {Undefined}, skew : SkewGrid]
    /\ z0 \in Z0Grid
    /\ pc = "call"
    /\ err = NoError
    /\ result = Undefined
    /\ draws = 0
    /\ calls = 0
    /\ rmean = Undefined
    /\ rstd = Undefined
    /\ u1 = Undefined
    /\ num = Undefined

\* line 26 applied to the variate z0 and the skew of the call
ApplySkew ==
    /\ pc = "call"
    /\ fn = "skewAdjusted"
    /\ num' = SkewAdjusted(z0, args.skew)
    /\ pc' = "done"
    /\ UNCHANGED <<fn, args, err, result, draws, calls, rmean, rstd, u1, z0>>

NextSkew == ApplySkew

SpecSkew == InitSkew /\ [][NextSkew]_vars

Magnitude(x) == Fin(Abs(x.v))
\* |zSkewed - z0| for the variate of the state and the skew t
Correction(t) == Magnitude(Sub(SkewAdjusted(z0, t), z0))
SkewApplied == fn = "skewAdjusted" /\ pc = "done"
OutsideUnit == Abs(z0.v) > Unit
InsideUnit == Abs(z0.v) > 0 /\ Abs(z0.v) < Unit

\* the direction of the correction zSkewed - z0 relative to z0: 1 away from
\* 0, -1 toward 0, 0 no correction
Orientation == SignOf(Sub(num, z0)) * SignOf(z0)

C17_FirstAcceptedSample ==
    fn = "boundedGaussianRandom" =>
        /\ Returned => (calls >= 1 /\ result = num /\ InBounds(result))
        /\ (pc = "loop" /\ calls >= 1) => OutOfBounds(num, args)
        /\ (pc = "loop" /\ calls = 0) => num = Undefined

(* ------------------- the rejection loop without a cap ------------------ *)
\* a call counter that stops counting at MaxIter, so that the unbounded
\* loop has finitely many states
Count(n, step) == IF calls < MaxIter THEN n + step ELSE n

\* the means and standard deviations the loop can run with
LoopMeans == {ResolveMean(p) : p \in ArgsOf("boundedGaussianRandom")}

LoopStdDevs == {ResolveStdDev(p) : p \in ArgsOf("boundedGaussianRandom")}

\* gaussianRandom({mean, stdDev, skew}) for every pair of draws, tabulated
\* over the parameters the loop can run with
SamplesOf ==
    [m \in LoopMeans, s \in LoopStdDevs, k \in SkewVals |->
        {gaussianRandom(m, s, Default(k, Zero), a, b) :
             a \in RandomValues, b \in RandomValues}]

\* the samples one iteration of the loop can draw
LoopSamples == SamplesOf[rmean, rstd, args.skew]

\* the loop with an attempt cap that throws when MaxIter samples were rejected
BoundedIterateUncapped_AttemptCap ==
    /\ pc = "loop"
    /\ IF calls >= MaxIter
       THEN /\ Throw("Sampling exhausted")
            /\ UNCHANGED <<draws, calls, u1, z0, num>>
       ELSE \E r \in LoopSamples :
               /\ draws' = Count(draws, r.consumed)
               /\ calls' = Count(calls, 1)
               /\ u1' = r.u1
               /\ z0' = r.z0
               /\ num' = r.value
               /\ IF OutOfBounds(r.value, args)
                  THEN pc' = "loop" /\ UNCHANGED <<err, result>>
                  ELSE pc' = "done" /\ err' = NoError /\ result' = r.value
    /\ UNCHANGED <<fn, args, rmean, rstd>>

\* one iteration of do { num = gaussianRandom(...) } while (...); return num,
\* followed for as long as the loop runs
BoundedIterateUncapped ==
    /\ pc = "loop"
    /\ \E r \in LoopSamples :
           /\ draws' = Count(draws, r.consumed)
           /\ calls' = Count(calls, 1)
           /\ u1' = r.u1
           /\ z0' = r.z0
           /\ num' = r.value
           /\ IF r.err # NoError
              THEN Throw(r.err)
              ELSE IF OutOfBounds(r.value, args)
              THEN pc' = "loop" /\ UNCHANGED <<err, result>>
              ELSE pc' = "done" /\ err' = NoError /\ result' = r.value
    /\ UNCHANGED <<fn, args, rmean, rstd>>

\* an iteration whose sample ends the loop
AcceptSample == pc = "loop" /\ pc' = "done" /\ BoundedIterateUncapped

\* the calls of boundedGaussianRandom
InitLoop == Init /\ fn = "boundedGaussianRandom"

NextLoop ==
    \/ CallBoundedGaussianRandom
    \/ BoundedIterateUncapped

\* the uniform source eventually yields a pair of draws that ends the loop,
\* when such a pair exists
SpecLoop == InitLoop /\ [][NextLoop]_vars /\ WF_vars(AcceptSample)

\* some pair of draws gives a sample in [min, max]
InRangePairExists == \E r \in LoopSamples : InBounds(r.value)

\* C18: the rejection loop has no attempt cap: after validation the call
\* never ends in an error, it samples again for as long as the sample is
\* < min or > max, and it terminates when the source eventually yields a
\* pair of draws whose sample is in range.
C18_UncappedRejectionLoop ==
    /\ [][pc = "loop" => (pc' \in {"loop", "done"} /\ err' = NoError)]_vars
    /\ [][(pc = "loop" /\ OutOfBounds(num', args)) => pc' = "loop"]_vars
    /\ [](pc = "loop" => ENABLED BoundedIterateUncapped)
    /\ (pc = "loop" /\ InRangePairExists) ~> (pc = "done")

C18_Witness ==
    /\ fn = "boundedGaussianRandom"
    /\ pc = "loop"
    /\ calls = MaxIter
    /\ OutOfBounds(num, args)
    /\ InRangePairExists

(* --------------- generateGaussianRandom, stdDev <= 0 ------------------- *)
NonPositiveStdDev == Present(args.stdDev) /\ Le(args.stdDev, Zero)

BoundsPresent == Present(args.min) /\ Present(args.max)

\* C19: generateGaussianRandom with an explicit stdDev <= 0 never returns a
\* value: with mean present it raises the stdDev error itself, before any
\* draw and without entering the bounded sampler, whatever min and max are;
\* with mean absent and min and max present the bounded sampler raises one of
\* its two errors; otherwise the missing-parameters error is raised.
C19_NonPositiveStdDevNeverReturns ==
    (fn = "generateGaussianRandom" /\ pc # "call" /\ NonPositiveStdDev) =>
        /\ Failed
        /\ result = Undefined
        /\ calls = 0
        /\ draws = 0
        /\ IF Present(args.mean)
           THEN err = StdDevError /\ rmean = Undefined /\ rstd = Undefined
           ELSE IF BoundsPresent
           THEN err = (IF Ge(args.min, args.max) THEN MinMaxError ELSE StdDevError)
           ELSE err = MissingError

C19_Witness ==
    /\ fn = "generateGaussianRandom"
    /\ NonPositiveStdDev
    /\ Present(args.mean)
    /\ BoundsPresent
    /\ Lt(args.min, args.max)
    /\ Failed
    /\ err = StdDevError

====
